---------------------------- MODULE Spec2Model ----------------------------
(***************************************************************************)
(* Model of the multi-party claimable balance contract (src/src/lib.rs).   *)
(*                                                                         *)
(* The contract instance owns two storage slots, DataKey::Init and         *)
(* DataKey::Balance, and has two entry points, deposit and claim.  The     *)
(* host serialises invocations, and a panicking invocation is rolled back  *)
(* as a whole.  The token contract, the authorisation check and the ledger *)
(* clock are the environment: the token moves `amount` from one account to *)
(* another or traps, require_auth passes or traps, the clock only grows.   *)
(*                                                                         *)
(* i128 arithmetic is modelled by mathematical integers: the only product  *)
(* the contract computes, amount_per_beneficiary * len, is at once handed  *)
(* to a token transfer out of a balance that is itself an i128, and the    *)
(* amounts of the model stay far below 2^127.                              *)
(***************************************************************************)
EXTENDS Integers, Sequences, FiniteSets, TLC

\* ------------------------------------------------------------------ bounds
MaxLen  == 2      \* longest beneficiary list enumerated exhaustively
MaxTime == 2      \* ledger timestamps are 0..MaxTime
Mint    == 10     \* units of each token minted to the funded account
CountCap == 3     \* history counters saturate here

\* --------------------------------------------------------------- constants
MaxBeneficiaries == 10

\* the identities of the model; "d" is the account the tests mint to
Addr     == {"d", "x", "y"}
Contract == "self"
Accounts == Addr \cup {Contract}
Tokens   == {"t1", "t2"}

Before == "Before"
After  == "After"
TimeBoundKind == {Before, After}
\* the time bounds offered to deposit: the clock starts before the timestamp,
\* reaches it and passes it
TimeBound == [kind : TimeBoundKind, timestamp : {1}]

\* the panics of the contract, named by the failure they report
Ok                    == "Ok"
InvalidAmount         == "InvalidAmount"          \* "amount must be positive"
TooManyBeneficiaries  == "TooManyBeneficiaries"   \* "too many beneficiaries"
AlreadyInitialized    == "AlreadyInitialized"     \* "contract has been already initialized"
Unauthorized          == "Unauthorized"           \* require_auth traps
NotInitialized        == "NotInitialized"         \* unwrap() of the absent Balance slot
NotABeneficiary       == "NotABeneficiary"        \* "beneficiary not in list"
TimeBoundNotSatisfied == "TimeBoundNotSatisfied"  \* "time bound not satisfied"
AlreadyClaimed        == "AlreadyClaimed"         \* "beneficiary already claimed"
TransferFailed        == "TransferFailed"         \* the token contract traps

\* ------------------------------------------------------------------ inputs
\* a negative amount, zero, and a positive amount
Amounts == {-1, 0, 1}

\* the identities offered to deposit as depositor and as beneficiaries: the
\* funded account and an unfunded one; "y" never deposits and is never listed
Listed == {"d", "x"}

\* a list longer than MaxLen: n entries alternating between the listed identities
Cycle(n) == [i \in 1..n |-> IF i % 2 = 1 THEN "x" ELSE "d"]

\* every list over Listed up to MaxLen: empty, with duplicates, in both orders
ShortLists == UNION {[1..n -> Listed] : n \in 0..MaxLen}

\* every list up to MaxLen, one list at the cap and one past it
BenLists == ShortLists \cup {Cycle(MaxBeneficiaries), Cycle(MaxBeneficiaries + 1)}

\* Vec::contains
Contains(s, a) == \E i \in 1..Len(s) : s[i] = a

\* Vec::push_back as it would be if it were push_front
PushBack_Front(s, a) == <<a>> \o s

\* Vec::push_back
PushBack(s, a) == Append(s, a)

Sat(n) == IF n < CountCap THEN n + 1 ELSE n

VARIABLES
  init,         \* instance storage has DataKey::Init
  balance,      \* instance storage slot DataKey::Balance: {} or {ClaimableBalance}
  token_bal,    \* token_bal[t][a]: units of token t held by account a
  now,          \* env.ledger().timestamp()
  last,         \* the last invocation: entry point, caller, outcome
  paid,         \* history: paid[a] = payouts account a has received
  deposits,     \* history: number of deposits that succeeded
  deposited     \* history: {} or {the arguments of the deposit that succeeded}

vars == <<init, balance, token_bal, now, last, paid, deposits, deposited>>

store == <<init, balance, token_bal>>

HasBalance == balance # {}
Rec == CHOOSE r \in balance : TRUE

HasDeposited == deposited # {}
Dep == CHOOSE d \in deposited : TRUE

\* ---------------------------------------------------------------- helpers
\* the time gate as it would be with the arms of the match exchanged
check_time_bound_Swapped(t, time_bound) ==
  IF time_bound.kind = Before THEN t >= time_bound.timestamp
                              ELSE t <= time_bound.timestamp

\* the time gate as it would be with the boundary timestamp excluded
check_time_bound_Strict(t, time_bound) ==
  IF time_bound.kind = Before THEN t < time_bound.timestamp
                              ELSE t > time_bound.timestamp

check_time_bound(t, time_bound) ==
  IF time_bound.kind = Before THEN t <= time_bound.timestamp
                              ELSE t >= time_bound.timestamp

is_initialized == init

\* token transfer: traps on a negative amount, on insufficient balance, or
\* when the asset contract rejects the movement
TransferOk(tok, from, amount, accept) ==
  accept /\ amount >= 0 /\ token_bal[tok][from] >= amount

Transferred(tok, from, to, amount) ==
  [token_bal EXCEPT ![tok] =
     [a \in Accounts |->
        token_bal[tok][a] - (IF a = from THEN amount ELSE 0)
                          + (IF a = to THEN amount ELSE 0)]]

\* what the caller of an entry point sees: who was named, and the outcome
Call(op, who, tag) == [op |-> op, who |-> who, tag |-> tag]

Init ==
  /\ init = FALSE
  /\ balance = {}
  /\ token_bal = [t \in Tokens |-> [a \in Accounts |-> IF a = "d" THEN Mint ELSE 0]]
  /\ now \in 0..MaxTime
  /\ last = Call("none", "none", Ok)
  /\ paid = [a \in Addr |-> 0]
  /\ deposits = 0
  /\ deposited = {}

\* ----------------------------------------------------------------- deposit
\* deposit as it would be without the is_initialized check
DepositTag_NoInitCheck(from, tok, amount_per_beneficiary, beneficiaries, auth, accept) ==
  IF amount_per_beneficiary < 0 THEN InvalidAmount
  ELSE IF Len(beneficiaries) > MaxBeneficiaries THEN TooManyBeneficiaries
  ELSE IF ~auth THEN Unauthorized
  ELSE IF ~TransferOk(tok, from, amount_per_beneficiary * Len(beneficiaries), accept)
       THEN TransferFailed
  ELSE Ok

\* deposit as it would be without the check of the amount's sign
DepositTag_NoAmountCheck(from, tok, amount_per_beneficiary, beneficiaries, auth, accept) ==
  IF Len(beneficiaries) > MaxBeneficiaries THEN TooManyBeneficiaries
  ELSE IF is_initialized THEN AlreadyInitialized
  ELSE IF ~auth THEN Unauthorized
  ELSE IF ~TransferOk(tok, from, amount_per_beneficiary * Len(beneficiaries), accept)
       THEN TransferFailed
  ELSE Ok

\* deposit as it would be with the is_initialized check made first
DepositTag_InitFirst(from, tok, amount_per_beneficiary, beneficiaries, auth, accept) ==
  IF is_initialized THEN AlreadyInitialized
  ELSE IF amount_per_beneficiary < 0 THEN InvalidAmount
  ELSE IF Len(beneficiaries) > MaxBeneficiaries THEN TooManyBeneficiaries
  ELSE IF ~auth THEN Unauthorized
  ELSE IF ~TransferOk(tok, from, amount_per_beneficiary * Len(beneficiaries), accept)
       THEN TransferFailed
  ELSE Ok

\* the checks of deposit in the order the code makes them, then the transfer
DepositTag(from, tok, amount_per_beneficiary, beneficiaries, auth, accept) ==
  IF amount_per_beneficiary < 0 THEN InvalidAmount
  ELSE IF Len(beneficiaries) > MaxBeneficiaries THEN TooManyBeneficiaries
  ELSE IF is_initialized THEN AlreadyInitialized
  ELSE IF ~auth THEN Unauthorized
  ELSE IF ~TransferOk(tok, from, amount_per_beneficiary * Len(beneficiaries), accept)
       THEN TransferFailed
  ELSE Ok

\* the stored record as it would be with total_amount not multiplied out
NewBalance_TotalIsAmount(tok, amount_per_beneficiary, beneficiaries, timebound) ==
  [token                  |-> tok,
   amount_per_beneficiary |-> amount_per_beneficiary,
   total_amount           |-> amount_per_beneficiary,
   beneficiaries          |-> beneficiaries,
   claimed_beneficiaries  |-> << >>,
   time_bound             |-> timebound]

\* the ClaimableBalance that deposit stores
NewBalance(tok, amount_per_beneficiary, beneficiaries, timebound) ==
  [token                  |-> tok,
   amount_per_beneficiary |-> amount_per_beneficiary,
   total_amount           |-> amount_per_beneficiary * Len(beneficiaries),
   beneficiaries          |-> beneficiaries,
   claimed_beneficiaries  |-> << >>,
   time_bound             |-> timebound]

\* deposit as it would be if Init were written ahead of the transfer and a
\* trapping transfer did not undo it
deposit_InitBeforeTransfer(from, tok, amount_per_beneficiary, beneficiaries, timebound, auth, accept) ==
  LET tag == DepositTag(from, tok, amount_per_beneficiary, beneficiaries, auth, accept)
      total_amount == amount_per_beneficiary * Len(beneficiaries)
  IN /\ last' = Call("deposit", from, tag)
     /\ init' = (init \/ tag \in {Ok, TransferFailed})
     /\ IF tag = Ok
        THEN /\ token_bal' = Transferred(tok, from, Contract, total_amount)
             /\ balance' = {NewBalance(tok, amount_per_beneficiary, beneficiaries, timebound)}
             /\ deposits' = Sat(deposits)
             /\ deposited' = {[from |-> from, token |-> tok,
                               amount_per_beneficiary |-> amount_per_beneficiary,
                               beneficiaries |-> beneficiaries,
                               time_bound |-> timebound]}
        ELSE UNCHANGED <<token_bal, balance, deposits, deposited>>
     /\ UNCHANGED <<now, paid>>

\* deposit as it would be if it moved one share instead of the total
deposit_TransfersOneShare(from, tok, amount_per_beneficiary, beneficiaries, timebound, auth, accept) ==
  LET tag == DepositTag(from, tok, amount_per_beneficiary, beneficiaries, auth, accept)
  IN /\ last' = Call("deposit", from, tag)
     /\ IF tag = Ok
        THEN /\ token_bal' = Transferred(tok, from, Contract, amount_per_beneficiary)
             /\ balance' = {NewBalance(tok, amount_per_beneficiary, beneficiaries, timebound)}
             /\ init' = TRUE
             /\ deposits' = Sat(deposits)
             /\ deposited' = {[from |-> from, token |-> tok,
                               amount_per_beneficiary |-> amount_per_beneficiary,
                               beneficiaries |-> beneficiaries,
                               time_bound |-> timebound]}
        ELSE UNCHANGED <<token_bal, balance, init, deposits, deposited>>
     /\ UNCHANGED <<now, paid>>

deposit(from, tok, amount_per_beneficiary, beneficiaries, timebound, auth, accept) ==
  LET tag == DepositTag(from, tok, amount_per_beneficiary, beneficiaries, auth, accept)
      total_amount == amount_per_beneficiary * Len(beneficiaries)
  IN /\ last' = Call("deposit", from, tag)
     /\ IF tag = Ok
        THEN /\ token_bal' = Transferred(tok, from, Contract, total_amount)
             /\ balance' = {NewBalance(tok, amount_per_beneficiary, beneficiaries, timebound)}
             /\ init' = TRUE
             /\ deposits' = Sat(deposits)
             /\ deposited' = {[from |-> from, token |-> tok,
                               amount_per_beneficiary |-> amount_per_beneficiary,
                               beneficiaries |-> beneficiaries,
                               time_bound |-> timebound]}
        ELSE UNCHANGED <<token_bal, balance, init, deposits, deposited>>
     /\ UNCHANGED <<now, paid>>

\* ------------------------------------------------------------------- claim
\* claim as it would be without the claimed_beneficiaries check
ClaimTag_NoClaimedCheck(beneficiary, auth, accept) ==
  IF ~auth THEN Unauthorized
  ELSE IF ~HasBalance THEN NotInitialized
  ELSE IF ~Contains(Rec.beneficiaries, beneficiary) THEN NotABeneficiary
  ELSE IF ~check_time_bound(now, Rec.time_bound) THEN TimeBoundNotSatisfied
  ELSE IF ~TransferOk(Rec.token, Contract, Rec.amount_per_beneficiary, accept)
       THEN TransferFailed
  ELSE Ok

\* claim as it would be without the check against the beneficiaries list
ClaimTag_NoListCheck(beneficiary, auth, accept) ==
  IF ~auth THEN Unauthorized
  ELSE IF ~HasBalance THEN NotInitialized
  ELSE IF ~check_time_bound(now, Rec.time_bound) THEN TimeBoundNotSatisfied
  ELSE IF Contains(Rec.claimed_beneficiaries, beneficiary) THEN AlreadyClaimed
  ELSE IF ~TransferOk(Rec.token, Contract, Rec.amount_per_beneficiary, accept)
       THEN TransferFailed
  ELSE Ok

\* claim as it would be if an absent record were read as an empty one
ClaimTag_AbsentIsEmpty(beneficiary, auth, accept) ==
  IF ~auth THEN Unauthorized
  ELSE IF ~HasBalance THEN NotABeneficiary
  ELSE IF ~Contains(Rec.beneficiaries, beneficiary) THEN NotABeneficiary
  ELSE IF ~check_time_bound(now, Rec.time_bound) THEN TimeBoundNotSatisfied
  ELSE IF Contains(Rec.claimed_beneficiaries, beneficiary) THEN AlreadyClaimed
  ELSE IF ~TransferOk(Rec.token, Contract, Rec.amount_per_beneficiary, accept)
       THEN TransferFailed
  ELSE Ok

\* claim as it would be with the claimed check made ahead of the time gate
ClaimTag_ClaimedBeforeTime(beneficiary, auth, accept) ==
  IF ~auth THEN Unauthorized
  ELSE IF ~HasBalance THEN NotInitialized
  ELSE IF ~Contains(Rec.beneficiaries, beneficiary) THEN NotABeneficiary
  ELSE IF Contains(Rec.claimed_beneficiaries, beneficiary) THEN AlreadyClaimed
  ELSE IF ~check_time_bound(now, Rec.time_bound) THEN TimeBoundNotSatisfied
  ELSE IF ~TransferOk(Rec.token, Contract, Rec.amount_per_beneficiary, accept)
       THEN TransferFailed
  ELSE Ok

\* the checks of claim in the order the code makes them, then the transfer
ClaimTag(beneficiary, auth, accept) ==
  IF ~auth THEN Unauthorized
  ELSE IF ~HasBalance THEN NotInitialized
  ELSE IF ~Contains(Rec.beneficiaries, beneficiary) THEN NotABeneficiary
  ELSE IF ~check_time_bound(now, Rec.time_bound) THEN TimeBoundNotSatisfied
  ELSE IF Contains(Rec.claimed_beneficiaries, beneficiary) THEN AlreadyClaimed
  ELSE IF ~TransferOk(Rec.token, Contract, Rec.amount_per_beneficiary, accept)
       THEN TransferFailed
  ELSE Ok

\* the Balance slot after a paid claim, as it would be if total_amount were
\* written back as it was read
BalanceAfterClaim_NoDecrement(cb) ==
  IF Len(cb.claimed_beneficiaries) = Len(cb.beneficiaries) THEN {} ELSE {cb}

\* the Balance slot after a paid claim, as it would be with the two lists
\* exchanged in the record that is written back
BalanceAfterClaim_SwappedLists(cb) ==
  IF Len(cb.claimed_beneficiaries) = Len(cb.beneficiaries)
  THEN {}
  ELSE {[cb EXCEPT !.total_amount = cb.total_amount - cb.amount_per_beneficiary,
                   !.beneficiaries = cb.claimed_beneficiaries,
                   !.claimed_beneficiaries = cb.beneficiaries]}

\* the Balance slot after a paid claim, as it would be if the last claim
\* wrote the emptied record back instead of removing it
BalanceAfterClaim_NeverRemoves(cb) ==
  {[cb EXCEPT !.total_amount = cb.total_amount - cb.amount_per_beneficiary]}

\* the Balance slot after a paid claim: cb is the record with the claimant
\* already pushed onto claimed_beneficiaries
BalanceAfterClaim(cb) ==
  IF Len(cb.claimed_beneficiaries) = Len(cb.beneficiaries)
  THEN {}
  ELSE {[cb EXCEPT !.total_amount = cb.total_amount - cb.amount_per_beneficiary]}

\* claim as it would be if it paid out the whole remaining total_amount
claim_PaysTotal(beneficiary, auth, accept) ==
  LET tag == ClaimTag(beneficiary, auth, accept)
  IN /\ last' = Call("claim", beneficiary, tag)
     /\ IF tag = Ok
        THEN LET claimable_balance ==
                   [Rec EXCEPT !.claimed_beneficiaries =
                                  PushBack(Rec.claimed_beneficiaries, beneficiary)]
             IN /\ token_bal' = Transferred(claimable_balance.token, Contract, beneficiary,
                                            claimable_balance.total_amount)
                /\ balance' = BalanceAfterClaim(claimable_balance)
                /\ paid' = [paid EXCEPT ![beneficiary] = Sat(paid[beneficiary])]
        ELSE UNCHANGED <<token_bal, balance, paid>>
     /\ UNCHANGED <<init, now, deposits, deposited>>

claim(beneficiary, auth, accept) ==
  LET tag == ClaimTag(beneficiary, auth, accept)
  IN /\ last' = Call("claim", beneficiary, tag)
     /\ IF tag = Ok
        THEN LET claimable_balance ==
                   [Rec EXCEPT !.claimed_beneficiaries =
                                  PushBack(Rec.claimed_beneficiaries, beneficiary)]
             IN /\ token_bal' = Transferred(claimable_balance.token, Contract, beneficiary,
                                            claimable_balance.amount_per_beneficiary)
                /\ balance' = BalanceAfterClaim(claimable_balance)
                /\ paid' = [paid EXCEPT ![beneficiary] = Sat(paid[beneficiary])]
        ELSE UNCHANGED <<token_bal, balance, paid>>
     /\ UNCHANGED <<init, now, deposits, deposited>>

\* a deposit with these arguments panics before it reaches the token
DepositRejects(amount, beneficiaries, auth) ==
  DepositTag("d", "t1", amount, beneficiaries, auth, TRUE) \notin {Ok, TransferFailed}

\* ------------------------------------------------------------------- clock
\* the ledger closes: the timestamp grows
Tick ==
  /\ now < MaxTime
  /\ now' = now + 1
  /\ last' = Call("tick", "none", Ok)
  /\ UNCHANGED <<init, balance, token_bal, paid, deposits, deposited>>

Next ==
  \/ \E from \in Listed, amount \in Amounts, beneficiaries \in BenLists, auth \in BOOLEAN :
       IF DepositRejects(amount, beneficiaries, auth)
       THEN \* the token and the time bound are never looked at
            deposit(from, "t1", amount, beneficiaries,
                    [kind |-> Before, timestamp |-> 1], auth, TRUE)
       ELSE \E tok \in Tokens, timebound \in TimeBound, accept \in BOOLEAN :
              deposit(from, tok, amount, beneficiaries, timebound, auth, accept)
  \/ \E beneficiary \in Addr, auth \in BOOLEAN, accept \in BOOLEAN :
       claim(beneficiary, auth, accept)
  \/ Tick

Spec == Init /\ [][Next]_vars

\* the ledger keeps closing, and every listed identity keeps making
\* authenticated claims that the token accepts
FairSpec ==
  /\ Init /\ [][Next]_vars
  /\ WF_vars(Tick)
  /\ \A b \in Listed : WF_vars(claim(b, TRUE, TRUE))

TypeOK ==
  /\ init \in BOOLEAN
  /\ Cardinality(balance) <= 1
  /\ now \in 0..MaxTime
  /\ \A t \in Tokens, a \in Accounts : token_bal[t][a] \in 0..Mint

\* ============================================================== properties
\* the step is an invocation of claim naming b / of deposit
IsClaim(b) == last'.op = "claim" /\ last'.who = b
IsDeposit  == last'.op = "deposit"

\* the time gate, written out from the two bounds
GateHolds ==
  /\ HasBalance
  /\ \/ Rec.time_bound.kind = Before /\ now <= Rec.time_bound.timestamp
     \/ Rec.time_bound.kind = After  /\ now >= Rec.time_bound.timestamp

\* C1: every identity receives at most one payout; while the record exists
\* and the time gate holds, a claim made by an identity that is already in
\* claimed_beneficiaries fails with AlreadyClaimed and moves no funds.
C1_ClaimAtMostOnce ==
  [][ /\ \A a \in Addr : paid'[a] <= 1
      /\ \A b \in Addr :
           ( /\ IsClaim(b)
             /\ last'.tag # Unauthorized
             /\ GateHolds
             /\ Contains(Rec.claimed_beneficiaries, b) )
           => /\ last'.tag = AlreadyClaimed
              /\ token_bal' = token_bal
              /\ paid' = paid ]_vars

\* a second claim of a paid beneficiary has just been refused
C1_Witness ==
  /\ HasBalance
  /\ last.op = "claim" /\ last.tag = AlreadyClaimed
  /\ paid[last.who] = 1
  /\ Rec.amount_per_beneficiary > 0

\* C2: while the record exists, total_amount equals amount_per_beneficiary
\* times the number of beneficiaries that have not claimed yet.
C2_TotalAmount ==
  HasBalance =>
    Rec.total_amount =
      Rec.amount_per_beneficiary *
        (Len(Rec.beneficiaries) - Len(Rec.claimed_beneficiaries))

\* a record with a positive amount, one claim paid, and a claim just refused
C2_Witness ==
  /\ HasBalance
  /\ Rec.amount_per_beneficiary > 0
  /\ Len(Rec.claimed_beneficiaries) >= 1
  /\ last.op = "claim" /\ last.tag \notin {Ok, Unauthorized}

\* C3 as stated: once a deposit has succeeded, every later deposit fails
\* with AlreadyInitialized, whatever its parameters.
C3_AnyLaterDepositAlreadyInitialized ==
  [][ (init /\ IsDeposit) => last'.tag = AlreadyInitialized ]_vars

\* C3 (amended): the Init flag is never cleared and at most one deposit ever
\* succeeds; once Init is set every deposit fails and changes nothing, with
\* AlreadyInitialized whenever its amount is non-negative and it names at
\* most 10 beneficiaries, and with InvalidAmount or TooManyBeneficiaries
\* otherwise; this stays so after the record has been claimed out and removed.
C3_OneDepositPerInstance ==
  /\ deposits <= 1
  /\ deposits = 1 => init
  /\ HasBalance => init
  /\ (last.op = "deposit" /\ last.tag = Ok) => deposits = 1
  /\ init =>
       \A from \in Listed, tok \in Tokens, amount \in Amounts, bens \in BenLists,
          auth \in BOOLEAN, accept \in BOOLEAN :
         DepositTag(from, tok, amount, bens, auth, accept) =
           IF amount < 0 THEN InvalidAmount
           ELSE IF Len(bens) > 10 THEN TooManyBeneficiaries
           ELSE AlreadyInitialized

\* a deposit has just been refused on an instance whose record is already
\* claimed out and removed
C3_Witness ==
  /\ init /\ ~HasBalance
  /\ deposits = 1
  /\ last.op = "deposit" /\ last.tag = AlreadyInitialized

\* the step is an authenticated claim by a listed identity that has not
\* claimed yet, with the record present
OpenClaim(b) ==
  /\ IsClaim(b)
  /\ last'.tag # Unauthorized
  /\ HasBalance
  /\ Contains(Rec.beneficiaries, b)
  /\ ~Contains(Rec.claimed_beneficiaries, b)

\* C4 as stated: such a claim succeeds if and only if the time gate holds.
C4_SucceedsIffGate ==
  [][ \A b \in Addr : OpenClaim(b) => (last'.tag = Ok <=> GateHolds) ]_vars

\* C4 (amended): such a claim succeeds if and only if the time gate holds
\* (now <= timestamp for Before, now >= timestamp for After, equality
\* included) and the token transfer succeeds; when the gate does not hold it
\* fails with TimeBoundNotSatisfied and no funds move.
C4_SucceedsIffGateAndTransfer ==
  [][ \A b \in Addr : OpenClaim(b) =>
        /\ last'.tag = Ok <=> (GateHolds /\ last'.tag # TransferFailed)
        /\ ~GateHolds => /\ last'.tag = TimeBoundNotSatisfied
                         /\ token_bal' = token_bal ]_vars

\* a claim has just been paid exactly at the boundary timestamp
C4_Witness ==
  /\ HasBalance
  /\ last.op = "claim" /\ last.tag = Ok
  /\ now = Rec.time_bound.timestamp
  /\ paid[last.who] = 1

\* the step is a claim naming an identity the accepted deposit did not list
RogueClaim(b) ==
  /\ IsClaim(b)
  /\ HasDeposited
  /\ ~Contains(Dep.beneficiaries, b)

\* C5 as stated: a claim by an identity outside the list fails with
\* NotABeneficiary in every state of the instance.
C5_AlwaysNotABeneficiary ==
  [][ \A b \in Addr :
        (RogueClaim(b) /\ last'.tag # Unauthorized) => last'.tag = NotABeneficiary ]_vars

\* C5 (amended): a claim by an identity outside the list always fails, at
\* every clock value, and that identity is never paid; the failure is
\* NotABeneficiary while the record exists and NotInitialized once the record
\* has been removed (Unauthorized when the call lacks the identity's
\* authorisation).
C5_RogueNeverPaid ==
  [][ \A b \in Addr : RogueClaim(b) =>
        /\ last'.tag # Ok
        /\ token_bal' = token_bal
        /\ paid'[b] = 0
        /\ last'.tag # Unauthorized =>
             last'.tag = (IF HasBalance THEN NotABeneficiary ELSE NotInitialized) ]_vars

\* an unlisted identity has just been refused although the time gate holds
C5_Witness ==
  /\ HasBalance /\ HasDeposited
  /\ last.op = "claim" /\ last.tag = NotABeneficiary
  /\ ~Contains(Dep.beneficiaries, last.who)
  /\ GateHolds

\* C6: in any state where every identity listed by the accepted deposit has
\* been paid, the Balance slot is absent and the holding account holds
\* nothing of the deposited token.
C6_RecordGoneWhenAllClaimed ==
  ( /\ HasDeposited
    /\ \A i \in 1..Len(Dep.beneficiaries) : paid[Dep.beneficiaries[i]] >= 1 )
  => /\ ~HasBalance
     /\ token_bal[Dep.token][Contract] = 0

\* C7: a failed invocation of deposit or claim, whether it fails on a
\* precondition or in the token transfer, leaves the Init flag, the Balance
\* record and every account's balance as they were; after a deposit whose
\* transfer failed Init is unset and a deposit can still succeed.
C7_FailureCommitsNothing ==
  [][ (last'.op \in {"deposit", "claim"} /\ last'.tag # Ok) =>
        /\ init' = init
        /\ balance' = balance
        /\ token_bal' = token_bal
        /\ paid' = paid
        /\ (IsDeposit /\ last'.tag = TransferFailed) =>
             /\ ~init'
             /\ \E from \in Listed, tok \in Tokens, amount \in Amounts, bens \in BenLists :
                  DepositTag(from, tok, amount, bens, TRUE, TRUE)' = Ok ]_vars

\* a deposit has just failed in its token transfer
C7_Witness ==
  /\ last.op = "deposit" /\ last.tag = TransferFailed
  /\ ~init /\ ~HasBalance
  /\ token_bal["t1"]["d"] = Mint /\ token_bal["t2"]["d"] = Mint

\* C8: a successful deposit moves amount_per_beneficiary * |beneficiaries|
\* units of the token from the depositor to the holding account and changes
\* no other balance, stores a record whose total_amount is that product and
\* whose claimed_beneficiaries is empty, and sets Init.
C8_DepositEffect ==
  [][ (IsDeposit /\ last'.tag = Ok) =>
        /\ init'
        /\ balance' # {}
        /\ paid' = paid
        /\ \A r \in balance' :
             LET total == r.amount_per_beneficiary * Len(r.beneficiaries)
             IN /\ r.total_amount = total
                /\ r.claimed_beneficiaries = << >>
                /\ \A t \in Tokens, a \in Accounts :
                     token_bal'[t][a] =
                       token_bal[t][a]
                         + (IF t = r.token /\ a = Contract THEN total ELSE 0)
                         - (IF t = r.token /\ a = last'.who THEN total ELSE 0) ]_vars

\* a deposit for two beneficiaries has just moved its funds into escrow
C8_Witness ==
  /\ last.op = "deposit" /\ last.tag = Ok
  /\ HasBalance
  /\ Rec.total_amount >= 2
  /\ token_bal[Rec.token][Contract] = Rec.total_amount

\* the effect of a paid claim on the holding account, the claimant and all
\* accounts that are neither
ClaimMoves(b) ==
  LET tok == Rec.token
      amt == Rec.amount_per_beneficiary
  IN /\ Contains(Rec.beneficiaries, b)
     /\ token_bal'[tok][Contract] = token_bal[tok][Contract] - amt
     /\ token_bal'[tok][b] = token_bal[tok][b] + amt
     /\ \A t \in Tokens, a \in Accounts :
          (t # tok \/ a \notin {Contract, b}) => token_bal'[t][a] = token_bal[t][a]
     /\ \A i \in 1..Len(Rec.beneficiaries) :
          Rec.beneficiaries[i] # b =>
            token_bal'[tok][Rec.beneficiaries[i]] = token_bal[tok][Rec.beneficiaries[i]]

\* C9 as stated: a successful claim moves amount_per_beneficiary from the
\* holding account to the claimant, who is listed, and leaves the depositor's
\* balance and every other beneficiary's balance unchanged.
C9_DepositorUntouched ==
  [][ \A b \in Addr : (IsClaim(b) /\ last'.tag = Ok) =>
        /\ ClaimMoves(b)
        /\ \A d \in deposited :
             token_bal'[Rec.token][d.from] = token_bal[Rec.token][d.from] ]_vars

\* C9 (amended): a successful claim moves amount_per_beneficiary from the
\* holding account to the claimant, who is listed, and changes no other
\* balance: every other beneficiary's balance is unchanged, and so is the
\* depositor's unless the depositor is itself the claiming beneficiary.
C9_ClaimEffect ==
  [][ \A b \in Addr : (IsClaim(b) /\ last'.tag = Ok) =>
        /\ ClaimMoves(b)
        /\ \A d \in deposited :
             d.from # b =>
               token_bal'[Rec.token][d.from] = token_bal[Rec.token][d.from] ]_vars

\* a beneficiary other than the depositor has just been paid a positive
\* amount while another beneficiary is still to claim
C9_Witness ==
  /\ last.op = "claim" /\ last.tag = Ok
  /\ HasBalance /\ HasDeposited
  /\ Rec.amount_per_beneficiary > 0
  /\ Dep.from # last.who
  /\ token_bal[Rec.token][last.who] = Rec.amount_per_beneficiary

\* C10: deposit rejects a negative amount with InvalidAmount and, for a
\* non-negative amount, more than 10 beneficiaries with TooManyBeneficiaries,
\* in both cases before the token is called; so every record that exists has
\* amount_per_beneficiary >= 0, total_amount >= 0 and at most 10 beneficiaries.
C10_RecordBounds ==
  /\ HasBalance =>
       /\ Rec.amount_per_beneficiary >= 0
       /\ Rec.total_amount >= 0
       /\ Len(Rec.beneficiaries) <= 10
  /\ \A from \in Listed, tok \in Tokens, amount \in Amounts, bens \in BenLists,
        auth \in BOOLEAN, accept \in BOOLEAN :
       IF amount < 0
       THEN DepositTag(from, tok, amount, bens, auth, accept) = InvalidAmount
       ELSE Len(bens) > 10 =>
              DepositTag(from, tok, amount, bens, auth, accept) = TooManyBeneficiaries

\* a record with exactly 10 beneficiaries and a positive total exists
C10_Witness ==
  /\ HasBalance
  /\ Len(Rec.beneficiaries) = 10
  /\ Rec.total_amount > 0

\* no identity occurs twice in s
Distinct(s) == \A i, j \in 1..Len(s) : s[i] = s[j] => i = j

\* the step is a paid claim
PaidClaim == last'.op = "claim" /\ last'.tag = Ok

\* C11: while the record exists claimed_beneficiaries is duplicate-free and
\* every entry of it is a beneficiary; a paid claim appends the claimant at
\* the end, and no other step (a failed call, a deposit on the initialised
\* instance, the clock) changes the list.
C11_ClaimedList ==
  [][ /\ balance' # {} =>
           /\ Distinct(Rec'.claimed_beneficiaries)
           /\ \A i \in 1..Len(Rec'.claimed_beneficiaries) :
                Contains(Rec'.beneficiaries, Rec'.claimed_beneficiaries[i])
      /\ \A b \in Addr :
           (IsClaim(b) /\ PaidClaim /\ balance' # {}) =>
             Rec'.claimed_beneficiaries = Append(Rec.claimed_beneficiaries, b)
      /\ (HasBalance /\ ~PaidClaim) =>
           /\ balance' # {}
           /\ Rec'.claimed_beneficiaries = Rec.claimed_beneficiaries ]_vars

\* the second of two paid claims has just been appended behind the first
C11_Witness ==
  /\ HasBalance
  /\ Len(Rec.claimed_beneficiaries) = 2
  /\ last.op = "claim" /\ last.tag = Ok
  /\ Rec.claimed_beneficiaries[2] = last.who
  /\ Rec.claimed_beneficiaries[1] # last.who

\* C12: while the record is absent, before the deposit as well as after the
\* last claim, an authenticated claim fails with NotInitialized and moves no
\* funds; the state with Init set and the record removed is never left, and
\* no claim and no deposit succeeds in it.
C12_AbsentRecord ==
  [][ /\ \A b \in Addr :
           (~HasBalance /\ IsClaim(b) /\ last'.tag # Unauthorized) =>
             /\ last'.tag = NotInitialized
             /\ token_bal' = token_bal
             /\ paid' = paid
      /\ (init /\ ~HasBalance) =>
           /\ init' /\ balance' = {}
           /\ token_bal' = token_bal
           /\ last'.op \in {"deposit", "claim"} => last'.tag # Ok ]_vars

\* a claim has just been refused on an instance whose record is claimed out
C12_Witness ==
  /\ init /\ ~HasBalance
  /\ last.op = "claim" /\ last.tag = NotInitialized
  /\ \E a \in Addr : paid[a] = 1

\* C13: deposit reports the first violated precondition in the order
\* InvalidAmount, TooManyBeneficiaries, AlreadyInitialized, Unauthorized,
\* also when several are violated at once, and only a deposit that passes all
\* four reaches the token transfer.
C13_DepositCheckOrder ==
  /\ \A from \in Listed, tok \in Tokens, amount \in Amounts, bens \in BenLists,
        auth \in BOOLEAN, accept \in BOOLEAN :
       LET first == IF amount < 0 THEN InvalidAmount
                    ELSE IF Len(bens) > 10 THEN TooManyBeneficiaries
                    ELSE IF init THEN AlreadyInitialized
                    ELSE IF ~auth THEN Unauthorized
                    ELSE "pass"
       IN IF first = "pass"
          THEN DepositTag(from, tok, amount, bens, auth, accept) \in {Ok, TransferFailed}
          ELSE DepositTag(from, tok, amount, bens, auth, accept) = first
  /\ (last.op = "deposit" /\ last.tag = Unauthorized) => ~init

\* a deposit with a negative amount has just been refused with InvalidAmount
\* on an instance that is already initialised
C13_Witness ==
  /\ init
  /\ last.op = "deposit" /\ last.tag = InvalidAmount

\* the failure the preconditions of claim give for an authenticated call
\* naming b, "pass" when all of them hold
ClaimPrecondition(b) ==
  IF ~HasBalance THEN NotInitialized
  ELSE IF \A i \in 1..Len(Rec.beneficiaries) : Rec.beneficiaries[i] # b
       THEN NotABeneficiary
  ELSE IF ~GateHolds THEN TimeBoundNotSatisfied
  ELSE IF \E i \in 1..Len(Rec.claimed_beneficiaries) : Rec.claimed_beneficiaries[i] = b
       THEN AlreadyClaimed
  ELSE "pass"

\* C14: claim reports the first violated precondition in the order
\* Unauthorized, NotInitialized, NotABeneficiary, TimeBoundNotSatisfied,
\* AlreadyClaimed: a paid beneficiary calling again outside the time window
\* gets TimeBoundNotSatisfied, an unlisted identity outside the window gets
\* NotABeneficiary.
C14_ClaimCheckOrder ==
  [][ \A b \in Addr :
        /\ \A accept \in BOOLEAN : ClaimTag(b, FALSE, accept) = Unauthorized
        /\ (IsClaim(b) /\ last'.tag # Unauthorized) =>
             IF ClaimPrecondition(b) = "pass"
             THEN last'.tag \in {Ok, TransferFailed}
             ELSE last'.tag = ClaimPrecondition(b) ]_vars

\* a paid beneficiary has just called again after the Before bound has passed
C14_Witness ==
  /\ HasBalance
  /\ ~GateHolds
  /\ last.op = "claim" /\ last.tag = TimeBoundNotSatisfied
  /\ Contains(Rec.claimed_beneficiaries, last.who)

\* C15: in no reachable state does the record exist with as many claimed
\* beneficiaries as beneficiaries, whatever list deposit accepted, the empty
\* list included.
C15_NoFullyClaimedRecord ==
  HasBalance => Len(Rec.claimed_beneficiaries) # Len(Rec.beneficiaries)

\* C16: the beneficiaries of every record that deposit creates are pairwise
\* distinct, so that as many payouts can be made as there are entries and the
\* deposited total can be claimed in full.
C16_DistinctBeneficiaries ==
  HasBalance => Distinct(Rec.beneficiaries)

\* C17: from the deposit until the record is removed its token,
\* amount_per_beneficiary, beneficiaries and time_bound stay what the deposit
\* stored; a step changes at most claimed_beneficiaries and total_amount, and
\* a failed claim changes nothing of the record.
C17_RecordFrame ==
  [][ /\ balance' # {} =>
           \A d \in deposited' :
             /\ Rec'.token = d.token
             /\ Rec'.amount_per_beneficiary = d.amount_per_beneficiary
             /\ Rec'.beneficiaries = d.beneficiaries
             /\ Rec'.time_bound = d.time_bound
      /\ (HasBalance /\ balance' # {}) =>
           /\ Rec'.token = Rec.token
           /\ Rec'.amount_per_beneficiary = Rec.amount_per_beneficiary
           /\ Rec'.beneficiaries = Rec.beneficiaries
           /\ Rec'.time_bound = Rec.time_bound
      /\ (HasBalance /\ last'.op = "claim" /\ last'.tag # Ok) => balance' = balance ]_vars

\* a claim has just been paid and the record that remains still lists both
\* beneficiaries in the deposited order
C17_Witness ==
  /\ HasBalance /\ HasDeposited
  /\ last.op = "claim" /\ last.tag = Ok
  /\ Len(Rec.claimed_beneficiaries) = 1
  /\ Len(Rec.beneficiaries) = 2
  /\ Rec.beneficiaries = Dep.beneficiaries
  /\ Rec.beneficiaries[1] # Rec.beneficiaries[2]

\* the payouts made so far, in units of the deposited token
PaidOut == Dep.amount_per_beneficiary * (paid["d"] + paid["x"] + paid["y"])

DepositedTotal == Dep.amount_per_beneficiary * Len(Dep.beneficiaries)

\* C18: the holding account starts at 0; it holds the record's total_amount
\* while the record exists, and always the deposited total less the payouts
\* made; the payouts never exceed the deposit and no holding balance is
\* negative.
C18_Conservation ==
  /\ \A t \in Tokens : token_bal[t][Contract] >= 0
  /\ ~HasDeposited => \A t \in Tokens : token_bal[t][Contract] = 0
  /\ HasBalance => HasDeposited /\ token_bal[Rec.token][Contract] = Rec.total_amount
  /\ HasDeposited =>
       /\ PaidOut <= DepositedTotal
       /\ token_bal[Dep.token][Contract] = DepositedTotal - PaidOut
       /\ \A t \in Tokens \ {Dep.token} : token_bal[t][Contract] = 0
       /\ \A a \in Addr : paid[a] < CountCap

\* one of two shares has been paid out and the other is still held
C18_Witness ==
  /\ HasBalance /\ HasDeposited
  /\ PaidOut = 1
  /\ DepositedTotal = 2
  /\ token_bal[Rec.token][Contract] = 1

\* the record exists under a Before bound that has passed
Expired ==
  /\ HasBalance
  /\ Rec.time_bound.kind = Before
  /\ now > Rec.time_bound.timestamp

\* C19: the clock never runs backwards, and once a Before bound has passed
\* no claim succeeds, the record is neither changed nor removed and the
\* holding account keeps the unclaimed balance: no step of deposit or claim
\* moves it, to the depositor or to anybody.
C19_ExpiryLocksRemainder ==
  [][ /\ now' >= now
      /\ Expired =>
           /\ Expired'
           /\ balance' = balance
           /\ token_bal' = token_bal
           /\ last'.op \in {"deposit", "claim"} => last'.tag # Ok ]_vars

\* an unclaimed share is locked: a beneficiary who has not claimed has just
\* been refused after the Before bound passed
C19_Witness ==
  /\ Expired
  /\ Rec.total_amount > 0
  /\ token_bal[Rec.token][Contract] = Rec.total_amount
  /\ last.op = "claim" /\ last.tag = TimeBoundNotSatisfied
  /\ ~Contains(Rec.claimed_beneficiaries, last.who)

\* the record exists under an After bound with a non-empty list of distinct
\* beneficiaries
AfterEscrow ==
  /\ HasBalance
  /\ Rec.time_bound.kind = After
  /\ Len(Rec.beneficiaries) >= 1
  /\ Distinct(Rec.beneficiaries)

\* every listed identity has been paid exactly once, the record is removed
\* and the holding account is back at 0
Exhausted ==
  /\ init /\ ~HasBalance /\ HasDeposited
  /\ token_bal[Dep.token][Contract] = 0
  /\ \A i \in 1..Len(Dep.beneficiaries) : paid[Dep.beneficiaries[i]] = 1

\* C20: after a deposit with an After bound and distinct beneficiaries, when
\* the clock keeps growing and every listed identity keeps claiming with its
\* authorisation and an accepting token, the time gate stays satisfied once
\* it is reached, and eventually every beneficiary has been paid exactly once
\* and the record is removed with the holding balance at 0.
C20_EventualExhaustion ==
  /\ [][ (AfterEscrow /\ GateHolds /\ balance' # {}) => GateHolds' ]_vars
  /\ AfterEscrow ~> Exhausted

\* an escrow of two shares under an After bound has been claimed out
C20_Witness ==
  /\ Exhausted
  /\ Dep.time_bound.kind = After
  /\ Len(Dep.beneficiaries) = 2
  /\ Dep.amount_per_beneficiary = 1

=============================================================================
